---- MODULE Spec2Model ----
(***************************************************************************)
(* Model of flora_esrgan/upscale.py: the Upscale orchestrator (run), the   *)
(* per-tile upscale function with its alpha compositing strategies and     *)
(* alpha quantisation (upscale, process), and the seamless border          *)
(* padding / cropping (copyMakeBorder calls in run, crop_seamless).        *)
(*                                                                         *)
(* Three specifications share the module:                                  *)
(*   Spec        the control flow of run() on image shapes (height, width, *)
(*               channel count), including the tile splitter;              *)
(*   SpecAlpha   upscale() on the samples of one pixel of an RGBA image;   *)
(*   SpecBorder  padding and cropping on the pixels of small images.       *)
(***************************************************************************)
EXTENDS Integers, Sequences, FiniteSets, TLC

VARIABLES
    \* ---- configuration stored by Upscale.__init__ / load_model
    seamless, alpha_mode, cache_max_split_depth,
    binary_alpha, ternary_alpha, alpha_threshold, alpha_boundary_offset,
    last_in_nc, last_out_nc, last_scale,
    input,          \* shape of self.input: [h, w, c]; c = 1 is a 2-D array
    capacity,       \* largest region area the model can infer without OOM
    \* ---- run()
    pc, stack, img, split_depths, hint, rlt, padded, cropped, runs,
    prev_depth,     \* depth returned by the splitter in the previous run
    \* ---- auto_split_upscale and the upscale call in progress
    todo, depth, call,
    \* ---- upscale() on one pixel
    px, out, raw_alpha, alpha_q, calls,
    \* ---- padding / cropping on pixels
    bsrc, bimg, bpc

cfgvars   == <<seamless, alpha_mode, cache_max_split_depth, binary_alpha,
               ternary_alpha, alpha_threshold, alpha_boundary_offset,
               last_in_nc, last_out_nc, last_scale, input, capacity>>
runvars   == <<pc, stack, img, split_depths, hint, rlt, padded, cropped,
               runs, prev_depth, todo, depth, call>>
pixelvars == <<px, out, raw_alpha, alpha_q, calls>>
bordervars == <<bsrc, bimg, bpc>>
vars      == <<cfgvars, runvars, pixelvars, bordervars>>

(***************************************************************************)
(* Bounds                                                                  *)
(***************************************************************************)
MaxDim   == 20      \* largest input height / width in Spec
MaxRuns  == 2       \* run() calls on one orchestrator
SmallCap == 300     \* a memory budget that forces splits
BigCap   == 4000    \* a memory budget that never fails within MaxDim
MaxPix   == 2       \* largest image side in SpecBorder

(***************************************************************************)
(* Program constants and enumerations                                      *)
(***************************************************************************)
Margin == 16        \* border width given to every copyMakeBorder call
MaxSample == 255    \* np.iinfo(uint8).max, and the output rescale factor

\* Samples normalised to [0, 1] are held as integers over the denominator
\* One, so 1.0 is One, 0.5 is One \div 2 and 0.2 is One \div 5.
One == 3 * 4 * 5

SeamlessOptions == {"tile", "mirror", "replicate", "alpha_pad"}
AlphaOptions    == {"none", "bg_difference", "separate", "swapping"}

Max(a, b) == IF a >= b THEN a ELSE b
Min(a, b) == IF a <= b THEN a ELSE b

(***************************************************************************)
(* run(): padding and cropping on shapes                                   *)
(***************************************************************************)
\* np.array(self.input); a 2-D array becomes 3 channels (GRAY2BGR).
ReadImage(inp) == [h |-> inp.h, w |-> inp.w, c |-> IF inp.c < 3 THEN 3 ELSE inp.c]

\* The four copyMakeBorder branches add 16 pixels on every side.
PadMargin(mode) == IF mode \in SeamlessOptions THEN Margin ELSE 0

PadShape(im, mode) ==
    [h |-> im.h + 2 * PadMargin(mode), w |-> im.w + 2 * PadMargin(mode), c |-> im.c]

\* "if self.seamless:" guards the crop.
ShouldCropAlways(mode) == TRUE
ShouldCrop(mode) == mode \in SeamlessOptions

\* crop_seamless: the window img[y : y + h, x : x + w].
CropWindowUnscaled(img_height, img_width, scale) ==
    [y |-> Margin, x |-> Margin,
     h |-> img_height - 2 * Margin, w |-> img_width - 2 * Margin]
CropWindow(img_height, img_width, scale) ==
    [y |-> Margin * scale, x |-> Margin * scale,
     h |-> img_height - (2 * Margin * scale), w |-> img_width - (2 * Margin * scale)]

\* Python slice a[lo : lo + n] of an axis of length len keeps this many items.
SliceLen(len, lo, n) == Max(0, Min(len, lo + n) - Min(len, lo))

CropShape(im, scale) ==
    LET win == CropWindow(im.h, im.w, scale)
    IN  [h |-> SliceLen(im.h, win.y, win.h), w |-> SliceLen(im.w, win.x, win.w), c |-> im.c]

(***************************************************************************)
(* upscale(): channel handling on shapes                                   *)
(***************************************************************************)
\* Condition of the alpha branch of upscale().
UsesCompositor(c) == c = 4 /\ last_in_nc = 3 /\ last_out_nc = 3

\* Number of self.process calls made by one upscale() call.
NumRuns(c) ==
    IF UsesCompositor(c) /\ alpha_mode \in {"bg_difference", "separate", "swapping"}
    THEN 2 ELSE 1

\* Channels handed to the model in the non-alpha branch.
AdaptChannels(c) ==
    IF c > last_in_nc THEN last_in_nc
    ELSE IF c = 3 /\ last_in_nc = 4 THEN 4
    ELSE c

\* Channels of the array upscale() returns.
UpscaleChannelsModelOnly(c) == last_out_nc
UpscaleChannels(c) == IF UsesCompositor(c) THEN 4 ELSE last_out_nc

\* Shape returned by upscale() for a region: the model scales both sides.
UpscaleShape(h, w, c) ==
    [h |-> h * last_scale, w |-> w * last_scale, c |-> UpscaleChannels(c)]

(***************************************************************************)
(* auto_split_upscale (utils/dataops), from its specification              *)
(***************************************************************************)
Region(y, x, h, w, d) == [y |-> y, x |-> x, h |-> h, w |-> w, d |-> d]

\* Four non-overlapping quadrants; odd sides give the first half the extra
\* pixel.  Quadrants of zero area are dropped.
Quadrants(r) ==
    LET h1 == (r.h + 1) \div 2
        h2 == r.h \div 2
        w1 == (r.w + 1) \div 2
        w2 == r.w \div 2
        all == << Region(r.y, r.x, h1, w1, r.d + 1),
                  Region(r.y, r.x + w1, h1, w2, r.d + 1),
                  Region(r.y + h1, r.x, h2, w1, r.d + 1),
                  Region(r.y + h1, r.x + w1, h2, w2, r.d + 1) >>
    IN  SelectSeq(all, LAMBDA q : q.h > 0 /\ q.w > 0)

RECURSIVE TilesAtDepth(_, _)
TilesAtDepth(rs, n) ==
    IF rs = << >> THEN << >>
    ELSE LET r == Head(rs)
         IN  IF r.d >= n \/ r.h * r.w <= 1
             THEN <<r>> \o TilesAtDepth(Tail(rs), n)
             ELSE TilesAtDepth(Quadrants(r) \o Tail(rs), n)

\* Regions the splitter starts from: the whole buffer, or, with a non-zero
\* cached depth, the tiles of that depth.
SplitStart(im, max_depth) ==
    TilesAtDepth(<< Region(0, 0, im.h, im.w, 0) >>, max_depth)

\* Stitching: a tile result placed at its scaled offset extends the buffer.
Stitch(buf, r, res) ==
    [h |-> Max(buf.h, r.y * last_scale + res.h),
     w |-> Max(buf.w, r.x * last_scale + res.w),
     c |-> res.c]

NoImage == [h |-> 0, w |-> 0, c |-> 0]
NoCall  == [region |-> Region(0, 0, 0, 0, 0), k |-> 0]

(***************************************************************************)
(* Spec: the control flow of run()                                         *)
(***************************************************************************)
Dims          == {1, 2, MaxDim}
Scales        == {1, 2, 4}
ModelChannels == { <<3, 3>>, <<4, 4>>, <<1, 1>> }   \* (in_nc, out_nc)
Capacities    == {0, SmallCap, BigCap}

PixelIdle  == px = << >> /\ out = << >> /\ raw_alpha = 0 /\ alpha_q = 0 /\ calls = 0
NoPixels   == [h |-> 0, w |-> 0, px |-> << >>]
BorderIdle == bsrc = NoPixels /\ bimg = NoPixels /\ bpc = "off"

\* State after Upscale.__init__ (which also loads the model).
Init ==
    /\ seamless \in SeamlessOptions \cup {"none"}
    /\ alpha_mode \in AlphaOptions
    /\ cache_max_split_depth \in BOOLEAN
    /\ binary_alpha = FALSE
    /\ ternary_alpha = FALSE
    /\ alpha_threshold = One \div 2
    /\ alpha_boundary_offset = One \div 5
    /\ \E m \in ModelChannels : last_in_nc = m[1] /\ last_out_nc = m[2]
    /\ last_scale \in Scales
    /\ input \in [h : Dims, w : Dims, c : {1, 3, 4}]
    /\ capacity \in Capacities
    /\ pc = "idle"
    /\ stack = << >>
    /\ img = NoImage
    /\ split_depths = << >>
    /\ hint = 0
    /\ rlt = NoImage
    /\ padded = FALSE
    /\ cropped = FALSE
    /\ runs = 0
    /\ prev_depth = -1
    /\ todo = << >>
    /\ depth = 0
    /\ call = NoCall
    /\ PixelIdle
    /\ BorderIdle

\* Frames on the call stack while run() is inside auto_split_upscale: run
\* hands self.upscale to the splitter and never calls it itself.
RunCallsUpscaleDirectly == << "run" >>
RunCallsSplitter == << "run", "auto_split_upscale" >>

\* run(), from entry to the end of the seamless padding.
RunPad ==
    /\ pc \in {"idle", "done", "failed"}
    /\ runs < MaxRuns
    /\ runs' = runs + 1
    /\ prev_depth' = IF 0 \in DOMAIN split_depths THEN split_depths[0] ELSE prev_depth
    /\ split_depths' = << >>
    /\ img' = PadShape(ReadImage(input), seamless)
    /\ padded' = (PadMargin(seamless) > 0)
    /\ cropped' = FALSE
    /\ rlt' = NoImage
    /\ hint' = 0
    /\ depth' = 0
    /\ stack' = << "run" >>
    /\ pc' = "padded"
    /\ UNCHANGED <<cfgvars, todo, call, pixelvars, bordervars>>

\* run(): the call of ops.auto_split_upscale, with max_depth when the depth
\* cache is enabled and holds an entry.
RunSplit ==
    /\ pc = "padded"
    /\ LET reuse == cache_max_split_depth /\ DOMAIN split_depths # {}
           md    == IF reuse THEN split_depths[0] ELSE 0
       IN  /\ hint' = md
           /\ todo' = SplitStart(img, md)
    /\ stack' = RunCallsSplitter
    /\ pc' = "split"
    /\ UNCHANGED <<cfgvars, img, split_depths, rlt, padded, cropped, runs,
                   prev_depth, depth, call, pixelvars, bordervars>>

\* The splitter invokes the function it was given (self.upscale) on the
\* next region.
SplitInvoke ==
    /\ pc = "split"
    /\ todo # << >>
    /\ call' = [region |-> Head(todo), k |-> 1]
    /\ todo' = Tail(todo)
    /\ stack' = Append(stack, "upscale")
    /\ pc' = "upscale"
    /\ UNCHANGED <<cfgvars, img, split_depths, hint, rlt, padded, cropped,
                   runs, prev_depth, depth, pixelvars, bordervars>>

\* One self.process call inside upscale(): a direct model invocation.  A
\* channel count the model does not accept is a fatal error; out of memory
\* raises through upscale(); after the last call upscale() returns and the
\* splitter places the result.
Process ==
    /\ pc = "upscale"
    /\ LET r == call.region
       IN  IF ~UsesCompositor(img.c) /\ AdaptChannels(img.c) # last_in_nc
           THEN /\ pc' = "failed"
                /\ UNCHANGED <<call, rlt, depth>>
           ELSE IF r.h * r.w > capacity
           THEN /\ pc' = "raised"
                /\ UNCHANGED <<call, rlt, depth>>
           ELSE IF call.k < NumRuns(img.c)
           THEN /\ pc' = "upscale"
                /\ call' = [call EXCEPT !.k = @ + 1]
                /\ UNCHANGED <<rlt, depth>>
           ELSE /\ pc' = "split"
                /\ rlt' = Stitch(rlt, r, UpscaleShape(r.h, r.w, img.c))
                /\ depth' = Max(depth, r.d)
                /\ UNCHANGED call
    /\ stack' = IF pc' = "upscale" THEN stack
                ELSE IF pc' = "failed" THEN << >>
                ELSE SubSeq(stack, 1, Len(stack) - 1)
    /\ UNCHANGED <<cfgvars, img, split_depths, hint, padded, cropped, runs,
                   prev_depth, todo, pixelvars, bordervars>>

\* The splitter handles resource exhaustion: quadrants one depth deeper, or
\* a fatal error for a region of one pixel.
SplitOnFailure ==
    /\ pc = "raised"
    /\ IF call.region.h * call.region.w <= 1
       THEN /\ pc' = "failed"
            /\ stack' = << >>
            /\ todo' = << >>
       ELSE /\ pc' = "split"
            /\ stack' = stack
            /\ todo' = Quadrants(call.region) \o todo
    /\ UNCHANGED <<cfgvars, img, split_depths, hint, rlt, padded, cropped,
                   runs, prev_depth, depth, call, pixelvars, bordervars>>

\* auto_split_upscale returns (rlt, depth); run() records the depth when it
\* did not pass max_depth.
SplitReturn ==
    /\ pc = "split"
    /\ todo = << >>
    /\ split_depths' = IF cache_max_split_depth /\ DOMAIN split_depths # {}
                       THEN split_depths ELSE (0 :> depth)
    /\ stack' = << "run" >>
    /\ pc' = "upscaled"
    /\ UNCHANGED <<cfgvars, img, hint, rlt, padded, cropped, runs, prev_depth,
                   todo, depth, call, pixelvars, bordervars>>

\* run(): final_scale, the seamless crop and Image.fromarray, which does
\* not accept an (h, w, 1) array.
RunCrop ==
    /\ pc = "upscaled"
    /\ LET final_scale == 1 * last_scale
       IN  /\ rlt' = IF ShouldCrop(seamless) THEN CropShape(rlt, final_scale) ELSE rlt
           /\ cropped' = ShouldCrop(seamless)
    /\ pc' = IF rlt.c \in {3, 4} THEN "done" ELSE "failed"
    /\ stack' = << >>
    /\ UNCHANGED <<cfgvars, img, split_depths, hint, padded, runs, prev_depth,
                   todo, depth, call, pixelvars, bordervars>>

Next ==
    \/ RunPad
    \/ RunSplit
    \/ SplitInvoke
    \/ Process
    \/ SplitOnFailure
    \/ SplitReturn
    \/ RunCrop

Spec == Init /\ [][Next]_vars

(***************************************************************************)
(* SpecAlpha: upscale() on one pixel of an RGBA image, 3-in / 3-out model  *)
(***************************************************************************)
\* img * 1.0 / np.iinfo(img.dtype).max
Normalise(b) == (b * One) \div MaxSample

\* np.clip(v, 0, 1)
Clip(v) == Max(0, Min(One, v))

\* What self.process returns for an RGB input: the model is opaque, its
\* output is clamped to [0, 1].
Levels   == {0, One \div 2, One}
ModelOut == Levels \X Levels \X Levels

\* Alpha channel of the RGBA array built by the selected strategy; a is the
\* normalised RGBA input pixel, m1 and m2 the results of the first and the
\* second self.process call.
StrategyAlphaFromInput(mode, a, m1, m2) ==
    CASE mode = "bg_difference" ->
            Clip(One - ((m2[1] - m1[1]) + (m2[2] - m1[2]) + (m2[3] - m1[3])) \div 3)
      [] mode = "separate" -> m2[1]
      [] mode = "swapping" -> m2[3]
      [] OTHER -> a[4]
StrategyAlpha(mode, a, m1, m2) ==
    CASE mode = "bg_difference" ->
            Clip(One - ((m2[1] - m1[1]) + (m2[2] - m1[2]) + (m2[3] - m1[3])) \div 3)
      [] mode = "separate" -> m2[1]
      [] mode = "swapping" -> m2[3]
      [] OTHER -> One

\* cv2.threshold(alpha, threshold, 1, cv2.THRESH_BINARY)
ThresholdInclusive(a, threshold) == IF a >= threshold THEN One ELSE 0
Threshold(a, threshold) == IF a > threshold THEN One ELSE 0

\* The nested np.where of the ternary branch.
TernaryLowerInclusive(a, threshold, offset) ==
    LET half_transparent_lower_bound == threshold - offset
        half_transparent_upper_bound == threshold + offset
    IN  IF a <= half_transparent_lower_bound THEN 0
        ELSE IF a <= half_transparent_upper_bound THEN One \div 2
        ELSE One
Ternary(a, threshold, offset) ==
    LET half_transparent_lower_bound == threshold - offset
        half_transparent_upper_bound == threshold + offset
    IN  IF a < half_transparent_lower_bound THEN 0
        ELSE IF a <= half_transparent_upper_bound THEN One \div 2
        ELSE One

\* The if / elif on binary_alpha and ternary_alpha.
Quantise(a) ==
    IF binary_alpha THEN Threshold(a, alpha_threshold)
    ELSE IF ternary_alpha THEN Ternary(a, alpha_threshold, alpha_boundary_offset)
    ELSE a

\* (output * 255.0).round() followed by astype(uint8): round half to even.
RoundByte(v) ==
    LET n == v * MaxSample
        q == n \div One
        r == n % One
    IN  IF 2 * r < One THEN q
        ELSE IF 2 * r > One THEN q + 1
        ELSE IF q % 2 = 0 THEN q ELSE q + 1

Thresholds == {0, One \div 4, One \div 2, One}
Offsets    == {0, One \div 5, One \div 2}
PixelBytes == { <<0, 0, 0, 0>>, <<MaxSample, MaxSample, MaxSample, MaxSample>>,
                <<MaxSample, 0, 0, 51>> }

RunIdle ==
    /\ pc = "idle" /\ stack = << >> /\ img = NoImage /\ split_depths = << >>
    /\ hint = 0 /\ rlt = NoImage /\ padded = FALSE /\ cropped = FALSE
    /\ runs = 0 /\ prev_depth = -1 /\ todo = << >> /\ depth = 0 /\ call = NoCall

\* The constructor accepts every combination of the alpha options.
InitAlpha ==
    /\ seamless = "none"
    /\ alpha_mode \in AlphaOptions
    /\ cache_max_split_depth = FALSE
    /\ binary_alpha \in BOOLEAN
    /\ ternary_alpha \in BOOLEAN
    /\ alpha_threshold \in Thresholds
    /\ alpha_boundary_offset \in Offsets
    /\ last_in_nc = 3 /\ last_out_nc = 3
    /\ last_scale = 1
    /\ input = [h |-> 1, w |-> 1, c |-> 4]
    /\ capacity = BigCap
    /\ RunIdle
    /\ px \in PixelBytes
    /\ out = << >>
    /\ raw_alpha = 0
    /\ alpha_q = 0
    /\ calls = 0
    /\ BorderIdle

\* upscale() on the pixel: strategy, optional quantisation, rescale.
UpscalePixel ==
    /\ calls = 0
    /\ px # << >>
    /\ \E m1 \in ModelOut, m2 \in ModelOut :
        LET a     == [i \in 1..4 |-> Normalise(px[i])]
            two   == alpha_mode \in {"bg_difference", "separate", "swapping"}
            alpha == StrategyAlpha(alpha_mode, a, m1, m2)
            rgb   == IF alpha_mode = "bg_difference"
                     THEN [i \in 1..3 |-> Clip(m1[i])] ELSE m1
            qa    == Quantise(alpha)
        IN  /\ raw_alpha' = alpha
            /\ alpha_q' = qa
            /\ out' = << RoundByte(rgb[1]), RoundByte(rgb[2]), RoundByte(rgb[3]),
                         RoundByte(qa) >>
            /\ calls' = IF two THEN 2 ELSE 1
    /\ UNCHANGED <<cfgvars, runvars, px, bordervars>>

NextAlpha == UpscalePixel

SpecAlpha == InitAlpha /\ [][NextAlpha]_vars

(***************************************************************************)
(* SpecBorder: the seamless padding and crop_seamless on pixels            *)
(***************************************************************************)
\* An image with pixels: [h, w, px] with px[<<i, j>>] for 0 <= i < h,
\* 0 <= j < w.
Index(h, w) == (0 .. h - 1) \X (0 .. w - 1)

RECURSIVE Reflect101(_, _)
Reflect101(p, len) ==
    IF p >= 0 /\ p < len THEN p
    ELSE IF p < 0 THEN Reflect101(-p - 1 + 1, len)
    ELSE Reflect101(len - 1 - (p - len) - 1, len)

\* cv2.borderInterpolate: the source index a destination index reads, -1
\* for the constant border.
borderInterpolate(p, len, borderType) ==
    IF p >= 0 /\ p < len THEN p
    ELSE CASE borderType = "BORDER_WRAP" -> p % len
           [] borderType = "BORDER_REFLECT_101" -> IF len = 1 THEN 0 ELSE Reflect101(p, len)
           [] borderType = "BORDER_REPLICATE" -> IF p < 0 THEN 0 ELSE len - 1
           [] OTHER -> -1

copyMakeBorder(src, top, bottom, left, right, borderType, value) ==
    LET h == src.h + top + bottom
        w == src.w + left + right
    IN  [h |-> h, w |-> w,
         px |-> [ij \in Index(h, w) |->
                   LET si == borderInterpolate(ij[1] - top, src.h, borderType)
                       sj == borderInterpolate(ij[2] - left, src.w, borderType)
                   IN  IF si < 0 \/ sj < 0 THEN value ELSE src.px[<<si, sj>>]]]

BorderType(mode) ==
    CASE mode = "tile" -> "BORDER_WRAP"
      [] mode = "mirror" -> "BORDER_REFLECT_101"
      [] mode = "replicate" -> "BORDER_REPLICATE"
      [] mode = "alpha_pad" -> "BORDER_CONSTANT"

\* The seamless branches of run().
PadImageShifted(im, mode) ==
    IF mode \in SeamlessOptions
    THEN copyMakeBorder(im, Margin, Margin, Margin - 1, Margin + 1, BorderType(mode), 0)
    ELSE im
PadImage(im, mode) ==
    IF mode \in SeamlessOptions
    THEN copyMakeBorder(im, Margin, Margin, Margin, Margin, BorderType(mode), 0)
    ELSE im

\* crop_seamless on pixels.
crop_seamless(im, scale) ==
    LET win == CropWindow(im.h, im.w, scale)
        h   == SliceLen(im.h, win.y, win.h)
        w   == SliceLen(im.w, win.x, win.w)
    IN  [h |-> h, w |-> w,
         px |-> [ij \in Index(h, w) |-> im.px[<<win.y + ij[1], win.x + ij[2]>>]]]

Samples == {0, 1}
SmallImages ==
    UNION { { [h |-> hw[1], w |-> hw[2], px |-> f] :
                f \in [Index(hw[1], hw[2]) -> Samples] } :
            hw \in (1 .. MaxPix) \X (1 .. MaxPix) }

InitBorder ==
    /\ seamless \in SeamlessOptions
    /\ alpha_mode = "none"
    /\ cache_max_split_depth = FALSE
    /\ binary_alpha = FALSE
    /\ ternary_alpha = FALSE
    /\ alpha_threshold = One \div 2
    /\ alpha_boundary_offset = One \div 5
    /\ last_in_nc = 3 /\ last_out_nc = 3
    /\ last_scale = 1
    /\ bsrc \in SmallImages
    /\ input = [h |-> bsrc.h, w |-> bsrc.w, c |-> 1]
    /\ capacity = BigCap
    /\ RunIdle
    /\ PixelIdle
    /\ bimg = bsrc
    /\ bpc = "raw"

\* The seamless padding of run() applied to the pixels.
BorderPad ==
    /\ bpc = "raw"
    /\ bimg' = PadImage(bimg, seamless)
    /\ bpc' = "padded"
    /\ UNCHANGED <<cfgvars, runvars, pixelvars, bsrc>>

\* crop_seamless applied to the padded pixels at scale 1.
BorderCrop ==
    /\ bpc = "padded"
    /\ ShouldCrop(seamless)
    /\ bimg' = crop_seamless(bimg, last_scale)
    /\ bpc' = "cropped"
    /\ UNCHANGED <<cfgvars, runvars, pixelvars, bsrc>>

NextBorder ==
    \/ BorderPad
    \/ BorderCrop

SpecBorder == InitBorder /\ [][NextBorder]_vars

(***************************************************************************)
(* Properties                                                              *)
(***************************************************************************)
InSplitter == pc \in {"split", "upscale", "raised"}

\* C1: a run that returns gives an image of exactly input height * scale by
\* input width * scale, for every seamless mode and any number of splits:
\* the crop removes exactly the scaled 16-pixel pad.
C1_OutputDims ==
    pc = "done" => /\ rlt.h = input.h * last_scale
                   /\ rlt.w = input.w * last_scale

C1_Witness ==
    /\ pc = "done" /\ seamless = "tile" /\ cropped
    /\ last_scale = 4 /\ depth >= 2 /\ input.h = MaxDim

\* C2: pad, then the splitter, then crop: while the splitter (and the model
\* inside it) runs the padding is complete and nothing has been cropped, the
\* crop only follows a finished split, and a returned run has cropped if and
\* only if it has padded (neither with no seamless mode).
C2_StageOrder ==
    /\ InSplitter => /\ padded = (seamless \in SeamlessOptions)
                     /\ img = PadShape(ReadImage(input), seamless)
                     /\ ~cropped
    /\ cropped => padded /\ todo = << >> /\ pc \in {"done", "failed"}
    /\ pc = "done" => (cropped <=> padded)
    /\ seamless = "none" => ~padded /\ ~cropped

C2_Witness ==
    /\ pc = "done" /\ padded /\ cropped /\ depth >= 1 /\ seamless = "mirror"

\* C3: the depth cache is empty at construction and, with cache reuse
\* enabled, a later run passes the depth recorded by the previous run to the
\* splitter as max_depth; with reuse disabled no hint is passed.
C3_CacheReuse ==
    /\ runs = 0 => split_depths = << >>
    /\ InSplitter /\ prev_depth >= 0 =>
           hint = IF cache_max_split_depth THEN prev_depth ELSE 0

\* C4: with binary_alpha and ternary_alpha both requested the model is never
\* invoked (the orchestrator fails first).
C4_NoInferenceWithBothFlags ==
    ~(binary_alpha /\ ternary_alpha /\ calls > 0)

\* C5 as stated: a returned run gives a 3-channel image for a 3-channel
\* input and a 4-channel image for a 4-channel input, whatever the model's
\* channel counts.
C5_ChannelsPreserved ==
    pc = "done" /\ input.c \in {3, 4} => rlt.c = input.c

\* C5 amended: a returned run gives 4 channels for an RGBA input with a
\* 3-in/3-out model and the model's output channel count otherwise.
C5_ChannelsFollowModel ==
    pc = "done" /\ input.c \in {3, 4} =>
        rlt.c = IF input.c = 4 /\ last_in_nc = 3 /\ last_out_nc = 3
                THEN 4 ELSE last_out_nc

C5_Witness ==
    /\ pc = "done" /\ input.c = 4 /\ last_in_nc = 3 /\ last_out_nc = 3
    /\ rlt.c = 4 /\ depth >= 1

\* Settings under which quantisation leaves a full-opacity alpha untouched.
KeepsOpaque ==
    \/ ~binary_alpha /\ ~ternary_alpha
    \/ binary_alpha /\ alpha_threshold < One
    \/ ~binary_alpha /\ ternary_alpha
          /\ alpha_threshold + alpha_boundary_offset < One

\* C6 as stated: with alpha mode none the output alpha is at maximum
\* opacity for every quantisation setting.
C6_AlwaysOpaque ==
    calls > 0 /\ alpha_mode = "none" => out[4] = MaxSample

\* C6 amended: with alpha mode none the output alpha is at maximum opacity
\* exactly when quantisation is off, or binary with threshold < 1, or
\* ternary alone with threshold + offset < 1.
C6_OpaqueUnlessQuantisedAway ==
    calls > 0 /\ alpha_mode = "none" =>
        /\ raw_alpha = One
        /\ (out[4] = MaxSample <=> KeepsOpaque)

C6_Witness ==
    /\ calls > 0 /\ alpha_mode = "none" /\ binary_alpha
    /\ alpha_threshold = One \div 2 /\ out[4] = MaxSample /\ px[4] = 0

\* C7 as stated: binary alpha maps values below the threshold to 0 and
\* values at or above it to 1.
C7_BinaryInclusive ==
    calls > 0 /\ binary_alpha =>
        alpha_q = IF raw_alpha >= alpha_threshold THEN One ELSE 0

\* C7 amended: binary alpha maps values at or below the threshold to 0 and
\* values strictly above it to 1.
C7_BinaryStrict ==
    calls > 0 /\ binary_alpha =>
        /\ alpha_q = IF raw_alpha > alpha_threshold THEN One ELSE 0
        /\ out[4] = IF raw_alpha > alpha_threshold THEN MaxSample ELSE 0

C7_Witness ==
    /\ calls > 0 /\ binary_alpha /\ raw_alpha = alpha_threshold
    /\ alpha_threshold = One \div 2 /\ alpha_q = 0

\* C8: ternary alpha (binary off) gives 0 below threshold - offset, 1 above
\* threshold + offset and 0.5 in between, both bounds included; a value at
\* the threshold gives 0.5 and only 0, 0.5 and 1 occur.
C8_Ternary ==
    calls > 0 /\ ternary_alpha /\ ~binary_alpha =>
        /\ alpha_q = IF raw_alpha < alpha_threshold - alpha_boundary_offset THEN 0
                     ELSE IF raw_alpha > alpha_threshold + alpha_boundary_offset THEN One
                     ELSE One \div 2
        /\ alpha_q \in {0, One \div 2, One}
        /\ raw_alpha = alpha_threshold => alpha_q = One \div 2

C8_Witness ==
    /\ calls > 0 /\ ternary_alpha /\ ~binary_alpha
    /\ raw_alpha = alpha_threshold /\ alpha_boundary_offset = 0
    /\ alpha_q = One \div 2

\* C9: cropping the padded image at scale 1 gives back the original image,
\* pixel for pixel, in every seamless mode.
C9_CropInvertsPad ==
    bpc = "cropped" => bimg = bsrc

C9_Witness ==
    /\ bpc = "cropped" /\ seamless = "mirror"
    /\ bsrc.h = MaxPix /\ bsrc.w = MaxPix
    /\ bsrc.px[<<0, 0>>] # bsrc.px[<<0, 1>>]

\* C10 as stated: a model run inside the compositor never makes the
\* compositor call itself fail with resource exhaustion.
C10_NoCompositorFailure ==
    ~(pc = "raised" /\ UsesCompositor(img.c))

\* C10 amended: upscale() runs only as the function invoked by the splitter,
\* and when one of its model runs is out of memory the exception leaves
\* upscale() and arrives in the splitter.
C10_SplitterWrapsCompositor ==
    /\ pc = "upscale" => stack = << "run", "auto_split_upscale", "upscale" >>
    /\ pc = "raised"  => stack = << "run", "auto_split_upscale" >>

C10_Witness ==
    /\ pc = "raised" /\ UsesCompositor(img.c) /\ NumRuns(img.c) = 2
    /\ call.region.d >= 1

====
